---- MODULE Spec2Model ----
(***************************************************************************)
(* Receptive-field propagation of torch_receptive_field/main.py.           *)
(*                                                                         *)
(* get_rf_data(module, input_shape, max_depth) walks the layers of a       *)
(* module tree in the order of named_modules(), threads the registers      *)
(* nx, ny, ox, oy, j, r through them, appends one LayerRFData per layer    *)
(* to data, and then builds data_clean, the list cut at max_depth.         *)
(*                                                                         *)
(* Representation.                                                         *)
(*  - A layer is a record: its class name (type), its kernel_size, stride  *)
(*    and padding (read only for Conv2d and MaxPool2d, 0 elsewhere) and    *)
(*    the sequence of its child layers.  "Module" is any nn.Module class   *)
(*    other than Sequential, Conv2d and MaxPool2d (an activation, a        *)
(*    normalisation, a user-defined block).                                *)
(*  - A str is the sequence of its characters; children are registered     *)
(*    under the names "0", "1", ... as nn.Sequential does.                 *)
(*  - An optional value is a sequence: None is <<>>, a value v is <<v>>.   *)
(*  - The floats the code computes are kept exact: the quotient of line    *)
(*    77 is a fraction [num, den], and the origin, always a multiple of    *)
(*    0.5, is stored in half pixels (ox = 3 stands for 1.5).               *)
(*  - The two box-drawing prefixes of the display label are written        *)
(*    "|- " and "+- ".                                                     *)
(***************************************************************************)
EXTENDS Integers, Sequences, FiniteSets, TLC

(***************************************************************************)
(* Bounds of the model and the sets the inputs are drawn from.             *)
(***************************************************************************)
MaxLayers == 4

DefaultMaxDepth == 99999

KernelSizes == {3}

Strides == {1, 2}

Paddings == {0, 1}

PoolSizes == {2}

InputShapes == {<<5, 5>>, <<6, 6>>, <<8, 8>>, <<5, 6>>}

MaxDepths == {0, 1, 2, DefaultMaxDepth}

None == <<>>

Some(v) == <<v>>

(***************************************************************************)
(* The module trees.                                                       *)
(***************************************************************************)
\* kernel_size, stride and padding hold the number lines 73-75 read: the
\* attribute itself, or its first component when it is a pair.
Layer(type, k, s, p, children) ==
    [type |-> type, kernel_size |-> k, stride |-> s, padding |-> p,
     children |-> children]

Conv2dLayers ==
    {Layer("Conv2d", k, s, p, <<>>) : k \in KernelSizes, s \in Strides, p \in Paddings}

\* nn.MaxPool2d(kernel_size): the stride defaults to the kernel size.
MaxPool2dLayers ==
    {Layer("MaxPool2d", k, k, 0, <<>>) : k \in PoolSizes}

ContainerTypes == {"Sequential", "Module"}

RECURSIVE ModuleTrees(_)
RECURSIVE ModuleLists(_)
\* The module trees of exactly n layers.
ModuleTrees(n) ==
    IF n = 1
    THEN Conv2dLayers \cup MaxPool2dLayers
         \cup {Layer(t, 0, 0, 0, <<>>) : t \in ContainerTypes}
    ELSE {Layer(t, 0, 0, 0, ch) : t \in ContainerTypes, ch \in ModuleLists(n - 1)}

\* The non-empty lists of module trees of n layers in all (<<>> for n = 0).
ModuleLists(n) ==
    IF n = 0
    THEN {<<>>}
    ELSE UNION {{<<m>> \o rest : m \in ModuleTrees(k), rest \in ModuleLists(n - k)} :
                k \in 1..n}

Modules == UNION {ModuleTrees(n) : n \in 1..MaxLayers}

(***************************************************************************)
(* iter_module: the (name, layer) pairs of module.named_modules().         *)
(***************************************************************************)
Digits == <<"0", "1", "2", "3", "4", "5", "6", "7", "8", "9">>

\* prefix + ("." if prefix else "") + name, the name being str(index).
SubmoduleName(prefix, index) ==
    IF prefix = <<>> THEN <<Digits[index + 1]>>
    ELSE prefix \o <<".", Digits[index + 1]>>

RECURSIVE named_modules(_, _)
RECURSIVE named_children(_, _, _)
named_modules(module, prefix) ==
    <<[name |-> prefix, layer |-> module]>> \o named_children(module, prefix, 0)

named_children(module, prefix, index) ==
    IF index >= Len(module.children) THEN <<>>
    ELSE named_modules(module.children[index + 1], SubmoduleName(prefix, index))
         \o named_children(module, prefix, index + 1)

iter_module(module) == named_modules(module, <<>>)

\* Mutant: ">= 0" for "> 0", every layer a custom module.
is_custom_module_always(module) == Len(module.children) >= 0

is_custom_module(module) == Len(module.children) > 0

(***************************************************************************)
(* str.split(sep) and the depth and label of a layer.                      *)
(***************************************************************************)
RECURSIVE split(_, _)
split(s, sep) ==
    IF \E i \in 1..Len(s) : s[i] = sep
    THEN LET i == CHOOSE i \in 1..Len(s) :
                    s[i] = sep /\ \A m \in 1..(i - 1) : s[m] # sep
         IN <<SubSeq(s, 1, i - 1)>> \o split(SubSeq(s, i + 1, Len(s)), sep)
    ELSE <<s>>

\* Mutant: the empty path not told apart, "".split(".") being [""].
DepthOfNoRoot(layer_name_dotted) == Len(split(layer_name_dotted, "."))

DepthOf(layer_name_dotted) ==
    IF layer_name_dotted = <<>> THEN 0 ELSE Len(split(layer_name_dotted, "."))

LayerName(layer_name_dotted, depth) ==
    IF depth = 0 THEN <<>>
    ELSE IF depth = 1 THEN <<"|- ">> \o layer_name_dotted
    ELSE [i \in 1..(depth - 1) |-> "|    "] \o <<"+- ">>
         \o split(layer_name_dotted, ".")[Len(split(layer_name_dotted, "."))]

(***************************************************************************)
(* LayerRFData.                                                            *)
(***************************************************************************)
LayerRFData(depth, name, type, output_shape, origin, jump, receptive_field) ==
    [depth |-> depth, name |-> name, type |-> type, output_shape |-> output_shape,
     origin |-> origin, jump |-> jump, receptive_field |-> receptive_field]

values(x) == <<x.output_shape, x.origin, x.jump, x.receptive_field>>

\* Mutant: receptive_field not copied.
replace_values_partial(x, v) ==
    [x EXCEPT !.output_shape = v[1], !.origin = v[2], !.jump = v[3]]

replace_values(x, v) ==
    [x EXCEPT !.output_shape = v[1], !.origin = v[2], !.jump = v[3],
              !.receptive_field = v[4]]

(***************************************************************************)
(* The arithmetic of one Conv2d or MaxPool2d layer.                        *)
(***************************************************************************)
\* ((n + 2 * p - k) / s) + 1 as the fraction num / den.
OutSize(n, k, s, p) == [num |-> (n + 2 * p - k) + s, den |-> s]

\* int(q) == q
IsInteger(q) == q.num % q.den = 0

\* int(q), which truncates towards zero
IntOf(q) == IF q.num >= 0 THEN q.num \div q.den ELSE -((-q.num) \div q.den)

\* Mutant: math.ceil for math.floor.
FloorAsCeil(q) == -((-q.num) \div q.den)

\* math.floor(q)
Floor(q) == q.num \div q.den

\* Mutant: only nx asserted.
AssertExactX(qx, qy) == IsInteger(qx)

AssertExact(qx, qy) == IsInteger(qx) /\ IsInteger(qy)

\* Mutant: k for k - 1.
NewReceptiveFieldKernel(r0, k, j0) == r0 + k * j0

NewReceptiveField(r0, k, j0) == r0 + (k - 1) * j0

\* Mutant: the kernel term dropped, o - p * j.
NewOriginPaddingOnly(o, k, p, j0) == o - 2 * p * j0

\* o + (((k - 1) / 2) - p) * j, in half pixels
NewOrigin(o, k, p, j0) == o + ((k - 1) - 2 * p) * j0

\* Mutant: j = s, the stride not accumulated.
NewJumpStrideOnly(j0, s) == s

NewJump(j0, s) == j0 * s

\* Mutant: the isinstance(layer, nn.Sequential) test dropped.
IsContainerCustomOnly(layer) == is_custom_module(layer)

IsContainer(layer) == layer.type = "Sequential" \/ is_custom_module(layer)

IsSpatial(layer) == layer.type = "Conv2d" \/ layer.type = "MaxPool2d"

(***************************************************************************)
(* The second loop: the list cut at max_depth.                             *)
(***************************************************************************)
\* Mutant: ">=" for ">" in the while loop.
DeeperOrEqual(x, depth) == x.depth >= depth

Deeper(x, depth) == x.depth > depth

Kept(x, depth) == x.depth <= depth

\* The while loop of lines 100-102; jj is the 0-based index j.
RECURSIVE WhileDeeper(_, _, _, _)
WhileDeeper(d, jj, depth, new_values) ==
    IF Len(d) > jj /\ Deeper(d[jj + 1], depth)
    THEN WhileDeeper(d, jj + 1, depth, values(d[jj + 1]))
    ELSE [new_values |-> new_values, j |-> jj]

\* The for loop of lines 96-106 from the 0-based index i on.  replace_values
\* writes into the record itself, which data holds too; line 99 reuses the
\* variable j.
RECURSIVE CleanLoop(_, _, _, _, _)
CleanLoop(d, i, depth, clean, j0) ==
    IF i >= Len(d) THEN [data |-> d, data_clean |-> clean, j |-> j0]
    ELSE LET hit == d[i + 1].depth = depth
             w == WhileDeeper(d, i + 1, depth, values(d[i + 1]))
             x == IF hit THEN replace_values(d[i + 1], w.new_values) ELSE d[i + 1]
         IN CleanLoop([d EXCEPT ![i + 1] = x], i + 1, depth,
                      IF Kept(x, depth) THEN Append(clean, x) ELSE clean,
                      IF hit THEN w.j ELSE j0)

(***************************************************************************)
(* get_rf_data as a state machine.                                         *)
(***************************************************************************)
VARIABLES module, input_shape, max_depth, pc, it, nx, ny, ox, oy, j, r,
          data, data_clean

vars == <<module, input_shape, max_depth, pc, it, nx, ny, ox, oy, j, r,
          data, data_clean>>

args == <<module, input_shape>>

\* Lines 52-56.  ox = oy = 1 is 0.5 in half pixels.  max_depth is first read
\* by the second loop and is drawn there: the variable is None until then
\* and Some(the argument) from then on.
Init ==
    /\ module \in Modules
    /\ input_shape \in InputShapes
    /\ max_depth = None
    /\ pc = "for"
    /\ it = 0
    /\ nx = input_shape[1]
    /\ ny = input_shape[2]
    /\ ox = 1
    /\ oy = 1
    /\ j = 1
    /\ r = 1
    /\ data = <<>>
    /\ data_clean = <<>>

layers == iter_module(module)

HasNext == pc = "for" /\ it < Len(layers)

NextName == layers[it + 1].name

NextLayer == layers[it + 1].layer

\* Lines 68-70.
VisitContainer ==
    /\ HasNext
    /\ IsContainer(NextLayer)
    /\ data' = Append(data,
                      LayerRFData(DepthOf(NextName),
                                  LayerName(NextName, DepthOf(NextName)),
                                  NextLayer.type, None, None, None, None))
    /\ it' = it + 1
    /\ UNCHANGED <<args, max_depth, pc, nx, ny, ox, oy, j, r, data_clean>>

\* Lines 72-92, the assertion of line 80 holding when it is reached.
VisitSpatial ==
    /\ HasNext
    /\ ~IsContainer(NextLayer)
    /\ IsSpatial(NextLayer)
    /\ LET p == NextLayer.padding
           s == NextLayer.stride
           k == NextLayer.kernel_size
           qx == OutSize(nx, k, s, p)
           qy == OutSize(ny, k, s, p)
       IN /\ IF module.type = "Conv2d"
             THEN AssertExact(qx, qy) /\ nx' = IntOf(qx) /\ ny' = IntOf(qy)
             ELSE nx' = Floor(qx) /\ ny' = Floor(qy)
          /\ r' = NewReceptiveField(r, k, j)
          /\ ox' = NewOrigin(ox, k, p, j)
          /\ oy' = NewOrigin(oy, k, p, j)
          /\ j' = NewJump(j, s)
    /\ data' = Append(data,
                      LayerRFData(DepthOf(NextName),
                                  LayerName(NextName, DepthOf(NextName)),
                                  NextLayer.type, Some(<<nx', ny'>>),
                                  Some(<<ox', oy'>>), Some(j'), Some(r')))
    /\ it' = it + 1
    /\ UNCHANGED <<args, max_depth, pc, data_clean>>

\* Line 80 failing: the AssertionError leaves get_rf_data, nothing is returned.
AssertionError ==
    /\ HasNext
    /\ ~IsContainer(NextLayer)
    /\ IsSpatial(NextLayer)
    /\ module.type = "Conv2d"
    /\ ~AssertExact(OutSize(nx, NextLayer.kernel_size, NextLayer.stride,
                            NextLayer.padding),
                    OutSize(ny, NextLayer.kernel_size, NextLayer.stride,
                            NextLayer.padding))
    /\ pc' = "raised"
    /\ UNCHANGED <<args, max_depth, it, nx, ny, ox, oy, j, r, data, data_clean>>

\* Line 92 alone: a layer that is neither a container nor Conv2d / MaxPool2d.
VisitPassthrough ==
    /\ HasNext
    /\ ~IsContainer(NextLayer)
    /\ ~IsSpatial(NextLayer)
    /\ data' = Append(data,
                      LayerRFData(DepthOf(NextName),
                                  LayerName(NextName, DepthOf(NextName)),
                                  NextLayer.type, Some(<<nx, ny>>),
                                  Some(<<ox, oy>>), Some(j), Some(r)))
    /\ it' = it + 1
    /\ UNCHANGED <<args, max_depth, pc, nx, ny, ox, oy, j, r, data_clean>>

\* Lines 94-108: the second loop and the return, for the max_depth passed.
Clean(depth) ==
    /\ pc = "for"
    /\ it = Len(layers)
    /\ max_depth' = Some(depth)
    /\ LET res == CleanLoop(data, 0, depth, <<>>, j)
       IN /\ data' = res.data
          /\ data_clean' = res.data_clean
          /\ j' = res.j
    /\ pc' = "returned"
    /\ UNCHANGED <<args, it, nx, ny, ox, oy, r>>

Next ==
    \/ VisitContainer
    \/ VisitSpatial
    \/ AssertionError
    \/ VisitPassthrough
    \/ \E depth \in MaxDepths : Clean(depth)

Spec == Init /\ [][Next]_vars

(***************************************************************************)
(* The shape of the tree, read off the tree itself and not off the names:  *)
(* the number of layers of a subtree, the nesting level of every layer in  *)
(* traversal order, and the last layer of a layer's subtree.               *)
(***************************************************************************)
RECURSIVE SizeOf(_)
RECURSIVE SizeOfList(_)
SizeOf(m) == 1 + SizeOfList(m.children)

SizeOfList(ms) == IF ms = <<>> THEN 0 ELSE SizeOf(Head(ms)) + SizeOfList(Tail(ms))

RECURSIVE LevelsOf(_, _)
RECURSIVE LevelsOfList(_, _)
LevelsOf(m, level) == <<level>> \o LevelsOfList(m.children, level + 1)

LevelsOfList(ms, level) ==
    IF ms = <<>> THEN <<>>
    ELSE LevelsOf(Head(ms), level) \o LevelsOfList(Tail(ms), level)

Levels == LevelsOf(module, 0)

SubtreeLast(i) == i + SizeOf(layers[i].layer) - 1

HasChildren(i) == layers[i].layer.children # <<>>

ContainerAt(i) == HasChildren(i) \/ layers[i].layer.type = "Sequential"

SpatialAt(i) == layers[i].layer.type \in {"Conv2d", "MaxPool2d"}

AllNull(x) ==
    x.output_shape = None /\ x.origin = None /\ x.jump = None
    /\ x.receptive_field = None

NoneNull(x) ==
    x.output_shape # None /\ x.origin # None /\ x.jump # None
    /\ x.receptive_field # None

NonNull(recs) == SelectSeq(recs, NoneNull)

\* The indices of the layers whose nesting level is at most depth, ascending.
RECURSIVE KeptFrom(_, _)
KeptFrom(i, depth) ==
    IF i > Len(Levels) THEN <<>>
    ELSE (IF Levels[i] <= depth THEN <<i>> ELSE <<>>) \o KeptFrom(i + 1, depth)

KeptLayers(depth) == KeptFrom(1, depth)

Returned == pc = "returned"

\* The max_depth the call was given, once the second loop has read it.
MaxDepthArg == max_depth[1]

Collapsing == pc = "for" /\ pc' = "returned"

(***************************************************************************)
(* C1: with max_depth left unbounded, the record of the i-th Conv2d or     *)
(* MaxPool2d layer in traversal order has as jump the product of the       *)
(* strides s_1 ... s_i and as receptive_field 1 plus the sum of            *)
(* (k_m - 1) * jump_(m-1) for m = 1..i; containers and passthrough layers  *)
(* in between change neither.                                              *)
(***************************************************************************)
RECURSIVE StrideProduct(_)
StrideProduct(i) ==
    IF i = 0 THEN 1
    ELSE IF SpatialAt(i) THEN layers[i].layer.stride * StrideProduct(i - 1)
    ELSE StrideProduct(i - 1)

RECURSIVE ClosedFormRF(_)
ClosedFormRF(i) ==
    IF i = 0 THEN 1
    ELSE IF SpatialAt(i)
    THEN ClosedFormRF(i - 1) + (layers[i].layer.kernel_size - 1) * StrideProduct(i - 1)
    ELSE ClosedFormRF(i - 1)

ClosedFormAt(recs, i) ==
    /\ recs[i].jump = Some(StrideProduct(i))
    /\ recs[i].receptive_field = Some(ClosedFormRF(i))

C1_ClosedForm ==
    /\ pc = "for" => \A i \in 1..Len(data) : SpatialAt(i) => ClosedFormAt(data, i)
    /\ (Returned /\ MaxDepthArg = DefaultMaxDepth) =>
           /\ Len(data_clean) = Len(layers)
           /\ \A i \in 1..Len(layers) : SpatialAt(i) => ClosedFormAt(data_clean, i)

C1_Witness ==
    /\ Returned
    /\ MaxDepthArg = DefaultMaxDepth
    /\ \E a, b, c \in 1..Len(layers) :
          /\ a < b /\ b < c
          /\ SpatialAt(a) /\ ~SpatialAt(b) /\ SpatialAt(c)
          /\ layers[a].layer.stride = 2
          /\ data_clean[c].jump = Some(4)
          /\ data_clean[c].receptive_field = Some(7)

(***************************************************************************)
(* C2: in the returned list, whatever max_depth is, jump and               *)
(* receptive_field never decrease along the records that carry scalars.    *)
(***************************************************************************)
C2_Monotone ==
    Returned =>
        LET s == NonNull(data_clean)
        IN \A i \in 1..(Len(s) - 1) :
              /\ s[i].jump[1] <= s[i + 1].jump[1]
              /\ s[i].receptive_field[1] <= s[i + 1].receptive_field[1]

C2_Witness ==
    /\ Returned
    /\ MaxDepthArg = 1
    /\ Len(data_clean) < Len(data)
    /\ LET s == NonNull(data_clean)
       IN /\ Len(s) >= 2
          /\ s[1].jump[1] < s[2].jump[1]
          /\ s[1].receptive_field[1] < s[2].receptive_field[1]

(***************************************************************************)
(* C3: when the root is itself a Conv2d and (n + 2p - k) / s + 1 is not an *)
(* integer on one of the two axes of the input shape, get_rf_data fails    *)
(* with an AssertionError and returns nothing; when the value is an        *)
(* integer on both axes the call succeeds with that integer as the         *)
(* output_shape.  Root Conv2d(kernel 3, stride 2, padding 0) on (6, 6)     *)
(* fails.                                                                  *)
(***************************************************************************)
RootSpan(axis) == input_shape[axis] + 2 * module.padding - module.kernel_size

RootExact == \A axis \in {1, 2} : RootSpan(axis) % module.stride = 0

RootShape == <<RootSpan(1) \div module.stride + 1, RootSpan(2) \div module.stride + 1>>

C3_RootConvAssert ==
    (module.type = "Conv2d" /\ (it > 0 \/ pc # "for")) =>
        /\ ~RootExact => (pc = "raised" /\ data = <<>> /\ data_clean = <<>>)
        /\ RootExact =>
              /\ pc # "raised"
              /\ Len(data) = 1
              /\ Returned => (Len(data_clean) = 1
                              /\ data_clean[1].output_shape = Some(RootShape))
              /\ pc = "for" => data[1].output_shape = Some(RootShape)

C3_Witness ==
    /\ pc = "raised"
    /\ module = Layer("Conv2d", 3, 2, 0, <<>>)
    /\ input_shape = <<6, 6>>

(***************************************************************************)
(* C4: a root container holding exactly one Conv2d(kernel 3, stride 1,     *)
(* padding 0), on the input shape (5, 5): exactly one returned record      *)
(* carries scalars, with output_shape (3, 3), jump 1, receptive_field 3    *)
(* and, as claimed, origin (1.0, 1.0) -- 2 half pixels.  The code gives    *)
(* the origin (1.5, 1.5), 3 half pixels: 0.5 + ((3 - 1) / 2 - 0) * 1.      *)
(***************************************************************************)
OneConvScenario ==
    /\ Returned
    /\ module.type \in ContainerTypes
    /\ module.children = <<Layer("Conv2d", 3, 1, 0, <<>>)>>
    /\ input_shape = <<5, 5>>

OneConvRecord(origin) ==
    LET s == NonNull(data_clean)
    IN /\ Len(s) = 1
       /\ s[1].output_shape = Some(<<3, 3>>)
       /\ s[1].jump = Some(1)
       /\ s[1].receptive_field = Some(3)
       /\ s[1].origin = Some(<<origin, origin>>)

C4_Original == OneConvScenario => OneConvRecord(2)

C4_Amended == OneConvScenario => OneConvRecord(3)

C4_Witness == OneConvScenario /\ MaxDepthArg = DefaultMaxDepth /\ Len(data_clean) = 2

(***************************************************************************)
(* C5: under a container root, the output_shape of every Conv2d or         *)
(* MaxPool2d record is floor((n + 2p - k) / s + 1) on each axis, n being   *)
(* the output size of the preceding Conv2d or MaxPool2d layer (the input   *)
(* shape for the first), and the floored value is the n of the next.  Two  *)
(* stacked Conv2d(kernel 3, stride 2, padding 1) on (8, 8) give (4, 4),    *)
(* jump 2, receptive_field 3 and then (2, 2), jump 4, receptive_field 7.   *)
(***************************************************************************)
\* floor(a / s) for s > 0, by its defining property.
FloorQuotient(a, s) ==
    LET bound == (IF a >= 0 THEN a ELSE -a) + 1
    IN CHOOSE q \in -bound..bound : q * s <= a /\ a < (q + 1) * s

PreviousSpatial(i) ==
    IF \E m \in 1..(i - 1) : SpatialAt(m)
    THEN CHOOSE m \in 1..(i - 1) :
             SpatialAt(m) /\ \A m2 \in (m + 1)..(i - 1) : ~SpatialAt(m2)
    ELSE 0

FlooredAt(recs, i) ==
    LET n == IF PreviousSpatial(i) = 0 THEN input_shape
             ELSE recs[PreviousSpatial(i)].output_shape[1]
        l == layers[i].layer
        out(axis) == FloorQuotient(n[axis] + 2 * l.padding - l.kernel_size, l.stride) + 1
    IN recs[i].output_shape = Some(<<out(1), out(2)>>)

TwoConvScenario ==
    /\ Returned
    /\ MaxDepthArg = DefaultMaxDepth
    /\ module.type \in ContainerTypes
    /\ module.children = <<Layer("Conv2d", 3, 2, 1, <<>>), Layer("Conv2d", 3, 2, 1, <<>>)>>
    /\ input_shape = <<8, 8>>

C5_NestedFloor ==
    /\ (module.type \in ContainerTypes /\ pc = "for") =>
           \A i \in 1..Len(data) : SpatialAt(i) => FlooredAt(data, i)
    /\ (module.type \in ContainerTypes /\ Returned /\ MaxDepthArg = DefaultMaxDepth) =>
           \A i \in 1..Len(layers) : SpatialAt(i) => FlooredAt(data_clean, i)
    /\ TwoConvScenario =>
           /\ values(data_clean[2])[1] = Some(<<4, 4>>)
           /\ data_clean[2].jump = Some(2)
           /\ data_clean[2].receptive_field = Some(3)
           /\ values(data_clean[3])[1] = Some(<<2, 2>>)
           /\ data_clean[3].jump = Some(4)
           /\ data_clean[3].receptive_field = Some(7)

C5_Witness == TwoConvScenario /\ Len(data_clean) = 3

(***************************************************************************)
(* C6: for every max_depth D the returned list is, in traversal order,     *)
(* the records of depth <= D and no other; a record of depth exactly D     *)
(* carries the four scalars of the last record of its own subtree (its     *)
(* own when it has no descendants) and a record of depth < D the scalars   *)
(* it had before the second loop.                                          *)
(***************************************************************************)
CollapsedAt(before, after, depth) ==
    LET kept == KeptLayers(depth)
    IN /\ Len(after) = Len(kept)
       /\ \A n \in 1..Len(kept) :
             LET i == kept[n]
             IN /\ after[n].depth = before[i].depth
                /\ after[n].depth <= depth
                /\ after[n].name = before[i].name
                /\ after[n].type = before[i].type
                /\ values(after[n]) =
                       IF before[i].depth = depth
                       THEN values(before[SubtreeLast(i)])
                       ELSE values(before[i])

C6_Collapse == [][Collapsing => CollapsedAt(data, data_clean', max_depth'[1])]_vars

C6_Witness ==
    /\ Returned
    /\ MaxDepthArg = 1
    /\ \E i \in 1..Len(Levels) : Levels[i] = 3
    /\ Len(data_clean) = 2
    /\ HasChildren(2)
    /\ data_clean[2].jump = Some(2)

(***************************************************************************)
(* C7: with max_depth = 0 exactly one record is returned, the root's, and  *)
(* as claimed its four scalars are the values of the registers after the   *)
(* last layer of the tree.  The code gives the root the scalars of the     *)
(* last record of the list, which are None when the last layer in          *)
(* traversal order is a Sequential without children (the root itself, if   *)
(* it is an empty Sequential).                                             *)
(***************************************************************************)
Registers == <<Some(<<nx, ny>>), Some(<<ox, oy>>), Some(j), Some(r)>>

RootOnly(recs, scalars) ==
    /\ Len(recs) = 1
    /\ recs[1].depth = 0
    /\ recs[1].name = <<>>
    /\ recs[1].type = module.type
    /\ values(recs[1]) = scalars

LastLayerIsEmptySequential ==
    /\ layers[Len(layers)].layer.type = "Sequential"
    /\ ~HasChildren(Len(layers))

C7_Original ==
    [][(Collapsing /\ max_depth' = Some(0)) => RootOnly(data_clean', Registers)]_vars

C7_Amended ==
    [][(Collapsing /\ max_depth' = Some(0)) =>
          RootOnly(data_clean',
                   IF LastLayerIsEmptySequential
                   THEN <<None, None, None, None>>
                   ELSE Registers)]_vars

C7_Witness ==
    /\ Returned
    /\ MaxDepthArg = 0
    /\ Len(layers) = MaxLayers
    /\ Len(data_clean) = 1
    /\ data_clean[1].jump = Some(4)
    /\ data_clean[1].receptive_field = Some(7)
    /\ module.type = "Sequential"

(***************************************************************************)
(* C8: a root without any Conv2d or MaxPool2d below it.  As claimed, the   *)
(* call returns without error exactly one record, the root's, all null.    *)
(* The code returns one record per layer of depth <= max_depth, and a      *)
(* layer that is no container carries the untouched registers: the input   *)
(* shape, origin (0.5, 0.5), jump 1, receptive field 1.                    *)
(***************************************************************************)
NoSpatialLayer == \A i \in 1..Len(layers) : ~SpatialAt(i)

InitialRegisters == <<Some(input_shape), Some(<<1, 1>>), Some(1), Some(1)>>

C8_Original ==
    (NoSpatialLayer /\ pc # "for") =>
        /\ Returned
        /\ Len(data_clean) = 1
        /\ data_clean[1].depth = 0
        /\ AllNull(data_clean[1])

C8_Amended ==
    NoSpatialLayer =>
        /\ pc # "raised"
        /\ Returned =>
              /\ Len(data_clean) = Len(KeptLayers(MaxDepthArg))
              /\ data_clean[1].depth = 0
              /\ \A n \in 1..Len(data_clean) :
                    AllNull(data_clean[n]) \/ values(data_clean[n]) = InitialRegisters
              /\ ~HasChildren(1) =>
                    /\ Len(data_clean) = 1
                    /\ AllNull(data_clean[1]) <=> module.type = "Sequential"

C8_Witness ==
    /\ Returned
    /\ NoSpatialLayer
    /\ Len(data_clean) >= 3
    /\ AllNull(data_clean[1])
    /\ \E n \in 1..Len(data_clean) : values(data_clean[n]) = InitialRegisters

(***************************************************************************)
(* C9: as claimed, the depth of a record is the number of "." in the       *)
(* layer's dotted path, 0 for the empty path of the root.  The code takes  *)
(* the number of segments of the path: the number of "." plus one for      *)
(* every layer but the root, which is the nesting level of the layer, and  *)
(* it is this number that max_depth is compared against.                   *)
(***************************************************************************)
CountDots(name) == Cardinality({i \in 1..Len(name) : name[i] = "."})

C9_Original ==
    \A i \in 1..Len(data) : data[i].depth = CountDots(layers[i].name)

SegmentCount(name) == IF name = <<>> THEN 0 ELSE CountDots(name) + 1

C9_Amended ==
    /\ \A i \in 1..Len(data) :
          /\ data[i].depth = SegmentCount(layers[i].name)
          /\ data[i].depth = Levels[i]
    /\ Returned =>
          /\ \A n \in 1..Len(data_clean) : data_clean[n].depth <= MaxDepthArg
          /\ Len(data_clean) =
                 Cardinality({i \in 1..Len(layers) :
                                  SegmentCount(layers[i].name) <= MaxDepthArg})

C9_Witness ==
    /\ Returned
    /\ MaxDepthArg = 2
    /\ \E i \in 1..Len(data) : data[i].depth = 3 /\ CountDots(layers[i].name) = 2
    /\ Len(data_clean) = 3

(***************************************************************************)
(* C10: as claimed, a returned record has its four scalars null if and     *)
(* only if its layer has children or is a Sequential.  This holds of the   *)
(* records of depth < max_depth; a record of depth max_depth carries the   *)
(* scalars of the last layer of its subtree, so that it is null if and     *)
(* only if that layer is a container (a Sequential without children).      *)
(***************************************************************************)
C10_Original ==
    Returned =>
        \A n \in 1..Len(data_clean) :
            AllNull(data_clean[n]) <=> ContainerAt(KeptLayers(MaxDepthArg)[n])

C10_Amended ==
    Returned =>
        \A n \in 1..Len(data_clean) :
            LET i == KeptLayers(MaxDepthArg)[n]
                x == data_clean[n]
            IN /\ AllNull(x) \/ NoneNull(x)
               /\ x.depth < MaxDepthArg => (AllNull(x) <=> ContainerAt(i))
               /\ x.depth = MaxDepthArg => (AllNull(x) <=> ContainerAt(SubtreeLast(i)))
               /\ (~HasChildren(i) /\ layers[i].layer.type # "Sequential") => NoneNull(x)

C10_Witness ==
    /\ Returned
    /\ MaxDepthArg = 1
    /\ Len(data_clean) = 3
    /\ AllNull(data_clean[1])
    /\ HasChildren(KeptLayers(1)[2]) /\ NoneNull(data_clean[2])
    /\ ~HasChildren(KeptLayers(1)[3]) /\ AllNull(data_clean[3])

====
